---- MODULE Spec2Model ----
(***************************************************************************)
(* Model of the wshclient call helpers (sendRpcRequestCallHelper,          *)
(* rtnErr, sendRpcRequestResponseStreamHelper) and of pkg/wsl/wsl-util.go  *)
(* (GetClientOs, GetClientArch, GetWshPath, DetectShell, GetHomeDir,       *)
(* hasBashInstalled, CpHostToRemote).                                      *)
(*                                                                         *)
(* The specifications share the module, one per piece of code:             *)
(*   Spec         one streaming call, its goroutine and its consumer       *)
(*   FairSpec     Spec with weak fairness of every step                    *)
(*   AbandonSpec  Spec with a consumer that may stop receiving             *)
(*   UnarySpec    one unary call                                           *)
(*   ProbeSpec    one run of GetClientOs or GetClientArch                  *)
(*   EnvSpec      one run of GetWshPath, DetectShell or GetHomeDir         *)
(*   CpSpec       one run of CpHostToRemote                                *)
(* The variables of the pieces a specification does not run stay at their  *)
(* initial values.                                                         *)
(***************************************************************************)
EXTENDS Integers, Sequences, FiniteSets, TLC

\* ------------------------------------------------------------------------
\* Bounds
\* ------------------------------------------------------------------------

\* Largest number of NextResponse calls the transport answers in one stream
\* before ResponseDone must report true.
MaxResp == 3

\* ------------------------------------------------------------------------
\* Values shared by the call helpers
\* ------------------------------------------------------------------------

\* The nil error.
NilErr == "nil"

\* errors.New("nil wshrpc passed to wshclient")
ErrNilWshrpc == "nil wshrpc passed to wshclient"

\* Errors the transport can return from its send primitives and NextResponse.
TransportErrs == {"transport: closed", "transport: timeout"}

\* The error of a failed ReUnmarshal.
ErrDecode == "decode error"

\* Response envelopes the transport can hand back.  kind "int" is an envelope
\* {"value": n}; kind "str" is {"value": "..."} which does not fit T.
Envelopes == {[kind |-> "int", value |-> 0], [kind |-> "int", value |-> 1],
              [kind |-> "str", value |-> 0]}

NoEnvelope == [kind |-> "none", value |-> 0]

\* The zero value of T, for T = struct{Value int}: what `var respData T` holds.
ZeroT == [Value |-> 0]

\* utilfn.ReUnmarshal(&respData, resp): structural copy of the envelope into
\* T.  Fails when the field does not fit; respData then keeps its zero value.
ReUnmarshal(resp) ==
  IF resp.kind = "int"
    THEN [err |-> NilErr, respData |-> [Value |-> resp.value]]
    ELSE [err |-> ErrDecode, respData |-> ZeroT]

\* A RespOrErrorUnion[T] literal.  NoResponse marks a literal that leaves the
\* Response field out (it then holds T's zero value); a literal that assigns
\* respData carries <<respData>>, also when respData equals the zero value.
NoResponse == <<>>

ErrorUnion(e) == [Response |-> NoResponse, Error |-> e]

ResponseUnion(d) == [Response |-> <<d>>, Error |-> NilErr]

\* No send in progress on respChan.
NoSend == [Response |-> NoResponse, Error |-> "no send"]

\* ------------------------------------------------------------------------
\* State
\* ------------------------------------------------------------------------

VARIABLES
  \* --- streaming call ---
  w,            \* "nil" or "rpc": the *wshutil.WshRpc argument
  spc,          \* position of the call / of its goroutine
  sending,      \* value the goroutine is blocked sending on respChan
  closeCount,   \* number of close(respChan) executed
  resp,         \* last envelope returned by NextResponse
  respData,     \* result of the last ReUnmarshal
  initErr,      \* error of the request's initiation (nil w or
                \* SendComplexRequest's err); NilErr when it succeeded
  doneSeen,     \* ResponseDone has returned true
  nResponseDone,\* calls of reqHandler.ResponseDone
  nNextResponse,\* calls of reqHandler.NextResponse
  produced,     \* envelopes NextResponse returned without error, in order
  received,     \* values the consumer received from respChan, in order
  consumerClosed, \* the consumer has observed respChan closed
  abandoned,    \* the consumer has stopped receiving from respChan
  \* --- unary call ---
  uw,           \* "nil" or "rpc": the *wshutil.WshRpc argument
  command,      \* the command argument
  opts,         \* the *wshrpc.RpcOpts argument, NilOpts when nil
  upc,          \* position of the call
  callLog,      \* transport primitives invoked, with the opts they got
  sendErr,      \* error the transport primitive returned (NilErr: none)
  uresp,        \* envelope SendRpcRequest returned
  nReUnmarshal, \* runs of the decode step
  decodeErr,    \* error the decode step returned (NilErr: none)
  retData,      \* returned T
  retErr,       \* returned error
  \* --- OS / architecture probe ---
  probe,        \* "os": GetClientOs runs, "arch": GetClientArch runs
  ppc,          \* variant the probe is about to execute, or "returned"
  execLog,      \* commands executed through client.WslCommand, in order,
                \* each with the err and out its Output() returned
  unixErr,      \* the function's unixErr
  cmdErr,       \* the function's cmdErr
  psErr,        \* the function's psErr
  pResult,      \* returned string
  pErr,         \* returned error
  \* --- GetWshPath, DetectShell, GetHomeDir ---
  fn,           \* the function that runs
  epc,          \* command the function is about to execute, or "returned"
  eLog,         \* commands executed through client.WslCommand, in order,
                \* each with the err and out its Output() returned
  wshPath,      \* what GetWshPath returned
  eResult,      \* returned string
  eErr,         \* returned error
  \* --- CpHostToRemote ---
  destPath,     \* the destPath argument
  cpc,          \* position of the calling task
  bashLog,      \* commands hasBashInstalled executed, with err and out
  bashInstalled,\* what hasBashInstalled returned
  script,       \* installCmd.String(): the rendered install script
  proc,         \* the remote process: "none", "running", "exited", "killed"
  copy,         \* the copy goroutine: "none", "copying", "copied", "done"
  cpLog,        \* what happened to the pipe, the process and the copy, in
                \* order, each with the error it returned
  cpErr         \* returned error

streamVars == <<w, spc, sending, closeCount, resp, respData, initErr,
                doneSeen, nResponseDone, nNextResponse, produced, received,
                consumerClosed, abandoned>>

unaryVars == <<uw, command, opts, upc, callLog, sendErr, uresp, nReUnmarshal,
               decodeErr, retData, retErr>>

probeVars == <<probe, ppc, execLog, unixErr, cmdErr, psErr, pResult, pErr>>

envVars == <<fn, epc, eLog, wshPath, eResult, eErr>>

cpVars == <<destPath, cpc, bashLog, bashInstalled, script, proc, copy, cpLog,
            cpErr>>

vars == <<streamVars, unaryVars, probeVars, envVars, cpVars>>

\* ------------------------------------------------------------------------
\* Streaming call: sendRpcRequestResponseStreamHelper and rtnErr
\* ------------------------------------------------------------------------

StreamInit ==
  /\ w \in {"nil", "rpc"}
  /\ spc = "call"
  /\ sending = NoSend
  /\ closeCount = 0
  /\ resp = NoEnvelope
  /\ respData = ZeroT
  /\ initErr = NilErr
  /\ doneSeen = FALSE
  /\ nResponseDone = 0
  /\ nNextResponse = 0
  /\ produced = <<>>
  /\ received = <<>>
  /\ consumerClosed = FALSE
  /\ abandoned = FALSE

\* rtnErr: the goroutine it starts blocks sending the error value.
rtnErr(e) ==
  /\ spc' = "rtnErr_send"
  /\ sending' = ErrorUnion(e)

\* The helper's body up to its return: nil check, SendComplexRequest, and the
\* start of either rtnErr's goroutine or the response loop.
StreamCall ==
  /\ spc = "call"
  /\ \/ /\ w = "nil"
        /\ initErr' = ErrNilWshrpc
        /\ rtnErr(ErrNilWshrpc)
     \/ /\ w # "nil"
        /\ \E e \in TransportErrs :
             /\ initErr' = e
             /\ rtnErr(e)
     \/ /\ w # "nil"
        /\ spc' = "loop_done"
        /\ UNCHANGED <<sending, initErr>>
  /\ UNCHANGED <<w, closeCount, resp, respData, doneSeen, nResponseDone,
                 nNextResponse, produced, received, consumerClosed>>
  /\ UNCHANGED <<abandoned, unaryVars, probeVars, envVars, cpVars>>

\* if reqHandler.ResponseDone() { break }
LoopResponseDone ==
  /\ spc = "loop_done"
  /\ nResponseDone' = nResponseDone + 1
  /\ \/ /\ doneSeen' = TRUE
        /\ spc' = "close"
     \/ /\ nNextResponse < MaxResp
        /\ doneSeen' = FALSE
        /\ spc' = "loop_next"
  /\ UNCHANGED <<w, sending, closeCount, resp, respData, initErr,
                 nNextResponse, produced, received, consumerClosed>>
  /\ UNCHANGED <<abandoned, unaryVars, probeVars, envVars, cpVars>>

\* resp, err := reqHandler.NextResponse(); on error send it and break.
LoopNextResponse ==
  /\ spc = "loop_next"
  /\ nNextResponse' = nNextResponse + 1
  /\ \/ \E e \in TransportErrs :
          /\ sending' = ErrorUnion(e)
          /\ spc' = "send_err"
          /\ UNCHANGED <<resp, produced>>
     \/ \E r \in Envelopes :
          /\ resp' = r
          /\ produced' = Append(produced, r)
          /\ spc' = "loop_decode"
          /\ UNCHANGED sending
  /\ UNCHANGED <<w, closeCount, respData, initErr, doneSeen,
                 nResponseDone, received, consumerClosed>>
  /\ UNCHANGED <<abandoned, unaryVars, probeVars, envVars, cpVars>>

\* LoopDecode with the decoded data dropped: the response literal is built
\* from a respData that ReUnmarshal never filled.
LoopDecode_SendsUnfilled ==
  /\ spc = "loop_decode"
  /\ LET d == ReUnmarshal(resp) IN
       /\ respData' = d.respData
       /\ IF d.err # NilErr
            THEN /\ sending' = ErrorUnion(d.err)
                 /\ spc' = "send_err"
            ELSE /\ sending' = ResponseUnion(ZeroT)
                 /\ spc' = "send_resp"
  /\ UNCHANGED <<w, closeCount, resp, initErr, doneSeen, nResponseDone,
                 nNextResponse, produced, received, consumerClosed>>
  /\ UNCHANGED <<abandoned, unaryVars, probeVars, envVars, cpVars>>

\* LoopDecode with the decode error sent next to the (partial) respData.
LoopDecode_SendsBoth ==
  /\ spc = "loop_decode"
  /\ LET d == ReUnmarshal(resp) IN
       /\ respData' = d.respData
       /\ IF d.err # NilErr
            THEN /\ sending' = [Response |-> <<d.respData>>, Error |-> d.err]
                 /\ spc' = "send_err"
            ELSE /\ sending' = ResponseUnion(d.respData)
                 /\ spc' = "send_resp"
  /\ UNCHANGED <<w, closeCount, resp, initErr, doneSeen, nResponseDone,
                 nNextResponse, produced, received, consumerClosed>>
  /\ UNCHANGED <<abandoned, unaryVars, probeVars, envVars, cpVars>>

\* var respData T; err = utilfn.ReUnmarshal(&respData, resp); the goroutine
\* then blocks sending either the error or the decoded response.
LoopDecode ==
  /\ spc = "loop_decode"
  /\ LET d == ReUnmarshal(resp) IN
       /\ respData' = d.respData
       /\ IF d.err # NilErr
            THEN /\ sending' = ErrorUnion(d.err)
                 /\ spc' = "send_err"
            ELSE /\ sending' = ResponseUnion(d.respData)
                 /\ spc' = "send_resp"
  /\ UNCHANGED <<w, closeCount, resp, initErr, doneSeen, nResponseDone,
                 nNextResponse, produced, received, consumerClosed>>
  /\ UNCHANGED <<abandoned, unaryVars, probeVars, envVars, cpVars>>

\* AfterSend with the break after an error send missing: the loop goes on.
AfterSend_NoBreak(at) ==
  CASE at = "rtnErr_send" -> "close"
    [] at = "send_err"    -> "loop_done"
    [] at = "send_resp"   -> "loop_done"

\* AfterSend with rtnErr's goroutine falling into the response loop.
AfterSend_RtnErrLoops(at) ==
  CASE at = "rtnErr_send" -> "loop_done"
    [] at = "send_err"    -> "close"
    [] at = "send_resp"   -> "loop_done"

\* AfterSend with the loop pulling again without asking ResponseDone.
AfterSend_SkipsDoneCheck(at) ==
  CASE at = "rtnErr_send" -> "close"
    [] at = "send_err"    -> "close"
    [] at = "send_resp"   -> "loop_next"

\* Where the sender continues once its send on respChan has completed.
AfterSend(at) ==
  CASE at = "rtnErr_send" -> "close"
    [] at = "send_err"    -> "close"
    [] at = "send_resp"   -> "loop_done"

\* respChan is unbuffered: a send completes when the consumer receives, and
\* a consumer that has stopped receiving completes none.
Deliver ==
  /\ spc \in {"rtnErr_send", "send_err", "send_resp"}
  /\ ~consumerClosed
  /\ ~abandoned
  /\ received' = Append(received, sending)
  /\ sending' = NoSend
  /\ spc' = AfterSend(spc)
  /\ UNCHANGED <<w, closeCount, resp, respData, initErr, doneSeen,
                 nResponseDone, nNextResponse, produced, consumerClosed>>
  /\ UNCHANGED <<abandoned, unaryVars, probeVars, envVars, cpVars>>

\* close(respChan): rtnErr's close, or the loop goroutine's deferred close.
CloseChan ==
  /\ spc = "close"
  /\ closeCount' = closeCount + 1
  /\ spc' = "exit"
  /\ UNCHANGED <<w, sending, resp, respData, initErr, doneSeen,
                 nResponseDone, nNextResponse, produced, received,
                 consumerClosed>>
  /\ UNCHANGED <<abandoned, unaryVars, probeVars, envVars, cpVars>>

\* The consumer's receive on the closed channel reports the close.
ObserveClose ==
  /\ closeCount > 0
  /\ ~consumerClosed
  /\ ~abandoned
  /\ consumerClosed' = TRUE
  /\ UNCHANGED <<w, spc, sending, closeCount, resp, respData, initErr,
                 doneSeen, nResponseDone, nNextResponse, produced, received>>
  /\ UNCHANGED <<abandoned, unaryVars, probeVars, envVars, cpVars>>

\* The consumer stops receiving before it has seen respChan closed.  The
\* helper takes no context and no cancellation signal: nothing tells the
\* goroutine.
Abandon ==
  /\ spc # "call"
  /\ ~consumerClosed
  /\ ~abandoned
  /\ abandoned' = TRUE
  /\ UNCHANGED <<w, spc, sending, closeCount, resp, respData, initErr,
                 doneSeen, nResponseDone, nNextResponse, produced, received,
                 consumerClosed>>
  /\ UNCHANGED <<unaryVars, probeVars, envVars, cpVars>>

\* The steps of the helper and of its goroutine.
ProducerNext ==
  \/ StreamCall
  \/ LoopResponseDone
  \/ LoopNextResponse
  \/ LoopDecode
  \/ CloseChan

StreamNext ==
  \/ StreamCall
  \/ LoopResponseDone
  \/ LoopNextResponse
  \/ LoopDecode
  \/ Deliver
  \/ CloseChan
  \/ ObserveClose

\* ------------------------------------------------------------------------
\* Unary call: sendRpcRequestCallHelper
\* ------------------------------------------------------------------------

\* A nil *wshrpc.RpcOpts.
NilOpts == [isNil |-> TRUE, NoResponse |-> FALSE, Timeout |-> 0]

\* &wshrpc.RpcOpts{}
DefaultOpts == [isNil |-> FALSE, NoResponse |-> FALSE, Timeout |-> 0]

\* The opts a caller can pass.
OptsValues ==
  {NilOpts} \cup [isNil : {FALSE}, NoResponse : BOOLEAN, Timeout : {0, 2000}]

Commands == {"message", "getmeta", "setmeta"}

\* Nothing returned yet.
NotReturned == "not returned"

UnaryInit ==
  /\ uw \in {"nil", "rpc"}
  /\ command \in Commands
  /\ opts \in OptsValues
  /\ upc = "call"
  /\ callLog = <<>>
  /\ sendErr = NilErr
  /\ uresp = NoEnvelope
  /\ nReUnmarshal = 0
  /\ decodeErr = NilErr
  /\ retData = ZeroT
  /\ retErr = NotReturned

\* if opts == nil { opts = &wshrpc.RpcOpts{} }
EffectiveOpts(o) == IF o.isNil THEN DefaultOpts ELSE o

\* IsNilRpc with the nil check missing.
IsNilRpc_NoCheck(x) == FALSE

\* w == nil
IsNilRpc(x) == x = "nil"

\* UsesSendCommand with the NoResponse option ignored.
UsesSendCommand_Ignored(o) == FALSE

\* if opts.NoResponse
UsesSendCommand(o) == EffectiveOpts(o).NoResponse

\* return respData, err
Return(d, e) ==
  /\ upc' = "returned"
  /\ retData' = d
  /\ retErr' = e

\* The head of the helper: default opts, var respData T, the nil check and
\* the choice of the send primitive.
UnaryCall ==
  /\ upc = "call"
  /\ IF IsNilRpc(uw)
       THEN Return(ZeroT, ErrNilWshrpc)
       ELSE /\ upc' = IF UsesSendCommand(opts) THEN "send_command"
                                                ELSE "send_rpc"
            /\ UNCHANGED <<retData, retErr>>
  /\ UNCHANGED <<uw, command, opts, callLog, sendErr, uresp, nReUnmarshal,
                 decodeErr>>
  /\ UNCHANGED <<streamVars, probeVars, envVars, cpVars>>

\* err := w.SendCommand(command, data, opts), and both returns after it.
UnarySendCommand ==
  /\ upc = "send_command"
  /\ callLog' = Append(callLog, [op |-> "SendCommand", command |-> command,
                                 opts |-> EffectiveOpts(opts)])
  /\ \E e \in TransportErrs \cup {NilErr} :
       /\ sendErr' = e
       /\ Return(ZeroT, e)
  /\ UNCHANGED <<uw, command, opts, uresp, nReUnmarshal, decodeErr>>
  /\ UNCHANGED <<streamVars, probeVars, envVars, cpVars>>

\* resp, err := w.SendRpcRequest(command, data, opts); return on error.
UnarySendRpcRequest ==
  /\ upc = "send_rpc"
  /\ callLog' = Append(callLog, [op |-> "SendRpcRequest", command |-> command,
                                 opts |-> EffectiveOpts(opts)])
  /\ \/ \E e \in TransportErrs :
          /\ sendErr' = e
          /\ Return(ZeroT, e)
          /\ UNCHANGED uresp
     \/ \E r \in Envelopes :
          /\ sendErr' = NilErr
          /\ uresp' = r
          /\ upc' = "decode"
          /\ UNCHANGED <<retData, retErr>>
  /\ UNCHANGED <<uw, command, opts, nReUnmarshal, decodeErr>>
  /\ UNCHANGED <<streamVars, probeVars, envVars, cpVars>>

\* UnaryDecode with the decode error dropped.
UnaryDecode_DropsErr ==
  /\ upc = "decode"
  /\ nReUnmarshal' = nReUnmarshal + 1
  /\ LET d == ReUnmarshal(uresp) IN
       /\ decodeErr' = d.err
       /\ Return(d.respData, NilErr)
  /\ UNCHANGED <<uw, command, opts, callLog, sendErr, uresp>>
  /\ UNCHANGED <<streamVars, probeVars, envVars, cpVars>>

\* err = utilfn.ReUnmarshal(&respData, resp), and both returns after it.
UnaryDecode ==
  /\ upc = "decode"
  /\ nReUnmarshal' = nReUnmarshal + 1
  /\ LET d == ReUnmarshal(uresp) IN
       /\ decodeErr' = d.err
       /\ Return(d.respData, d.err)
  /\ UNCHANGED <<uw, command, opts, callLog, sendErr, uresp>>
  /\ UNCHANGED <<streamVars, probeVars, envVars, cpVars>>

UnaryNext ==
  \/ UnaryCall
  \/ UnarySendCommand
  \/ UnarySendRpcRequest
  \/ UnaryDecode

\* ------------------------------------------------------------------------
\* Strings, as sequences of characters
\* ------------------------------------------------------------------------

UpperChars ==
  <<"A", "B", "C", "D", "E", "F", "G", "H", "I", "J", "K", "L", "M",
    "N", "O", "P", "Q", "R", "S", "T", "U", "V", "W", "X", "Y", "Z">>

LowerChars ==
  <<"a", "b", "c", "d", "e", "f", "g", "h", "i", "j", "k", "l", "m",
    "n", "o", "p", "q", "r", "s", "t", "u", "v", "w", "x", "y", "z">>

ToLowerChar(c) ==
  IF \E i \in 1..Len(UpperChars) : UpperChars[i] = c
    THEN LowerChars[CHOOSE i \in 1..Len(UpperChars) : UpperChars[i] = c]
    ELSE c

\* strings.ToLower
ToLower(s) == [i \in 1..Len(s) |-> ToLowerChar(s[i])]

\* The white space strings.TrimSpace strips.
SpaceChars == {" ", "\t", "\n", "\r", "\f"}

RECURSIVE TrimLeft(_)
TrimLeft(s) ==
  IF s # <<>> /\ Head(s) \in SpaceChars THEN TrimLeft(Tail(s)) ELSE s

RECURSIVE TrimRight(_)
TrimRight(s) ==
  IF s # <<>> /\ s[Len(s)] \in SpaceChars
    THEN TrimRight(SubSeq(s, 1, Len(s) - 1))
    ELSE s

\* strings.TrimSpace
TrimSpace(s) == TrimRight(TrimLeft(s))

\* strings.Split(s, sep)[0] for a one-character sep: s up to its first sep.
RECURSIVE SplitFirst(_, _)
SplitFirst(s, sep) ==
  IF s = <<>> \/ Head(s) = sep
    THEN <<>>
    ELSE <<Head(s)>> \o SplitFirst(Tail(s), sep)

PlaceholderOsCmd == <<"%", "O", "S", "%">>

PlaceholderOsPs == <<"$", "e", "n", "v", ":", "O", "S">>

PlaceholderArchCmd ==
  <<"%", "P", "R", "O", "C", "E", "S", "S", "O", "R", "_", "A", "R", "C",
    "H", "I", "T", "E", "C", "T", "U", "R", "E", "%">>

PlaceholderArchPs ==
  <<"$", "e", "n", "v", ":", "P", "R", "O", "C", "E", "S", "S", "O", "R",
    "_", "A", "R", "C", "H", "I", "T", "E", "C", "T", "U", "R", "E">>

StrX8664 == <<"x", "8", "6", "_", "6", "4">>

StrX64 == <<"x", "6", "4">>

\* ------------------------------------------------------------------------
\* What the remote can answer to a probe command
\* ------------------------------------------------------------------------

OutLinux == <<"L", "i", "n", "u", "x", "\n">>

OutDarwin == <<" ", "D", "a", "r", "w", "i", "n", " ", "\n">>

OutMsys ==
  <<"M", "S", "Y", "S", "_", "N", "T", "-", "1", "0", ".", "0", "\n">>

OutWindowsNT ==
  <<"W", "i", "n", "d", "o", "w", "s", "_", "N", "T", "\r", "\n">>

OutOsCmdRaw == <<"%", "O", "S", "%", "\r", "\n">>

OutOsPsRaw == <<"$", "e", "n", "v", ":", "O", "S", "\n">>

OutX8664 == <<"x", "8", "6", "_", "6", "4", "\n">>

OutArm64 == <<"a", "r", "m", "6", "4", "\n">>

OutAMD64 == <<"A", "M", "D", "6", "4", "\r", "\n">>

OutArchCmdRaw ==
  <<"%", "P", "R", "O", "C", "E", "S", "S", "O", "R", "_", "A", "R", "C",
    "H", "I", "T", "E", "C", "T", "U", "R", "E", "%", "\r", "\n">>

OutArchPsRaw ==
  <<"$", "e", "n", "v", ":", "P", "R", "O", "C", "E", "S", "S", "O", "R",
    "_", "A", "R", "C", "H", "I", "T", "E", "C", "T", "U", "R", "E", "\n">>

\* Errors cmd.Output() can return.
ExecErrs == {"exit status 1", "exit status 127"}

OsOutputs ==
  {OutLinux, OutDarwin, OutMsys, OutWindowsNT, OutOsCmdRaw, OutOsPsRaw, <<>>}

ArchOutputs ==
  {OutX8664, OutArm64, OutAMD64, OutArchCmdRaw, OutArchPsRaw, <<>>}

\* out, err := cmd.Output(): an error, or the captured output.
Outcomes(outs) ==
  [err : ExecErrs, out : {<<>>}] \cup [err : {NilErr}, out : outs]

\* ------------------------------------------------------------------------
\* GetClientOs and GetClientArch
\* ------------------------------------------------------------------------

\* The nil error of a probe.
NoProbeErr ==
  [msg |-> NilErr, unix |-> NilErr, cmd |-> NilErr, powershell |-> NilErr]

\* fmt.Errorf("unable to determine ...: {unix: %s, cmd: %s, powershell: %s}",
\* unixErr, cmdErr, psErr).  A NilErr field is a nil error handed to %s.
AggregateErr(m, ue, ce, pe) ==
  [msg |-> m, unix |-> ue, cmd |-> ce, powershell |-> pe]

ProbeInit ==
  /\ probe \in {"os", "arch"}
  /\ ppc = "unix"
  /\ execLog = <<>>
  /\ unixErr = NilErr
  /\ cmdErr = NilErr
  /\ psErr = NilErr
  /\ pResult = <<>>
  /\ pErr = NoProbeErr

\* NextVariant with the cmd variant skipped.
NextVariant_SkipsCmd(v) ==
  CASE v = "unix" -> "ps"
    [] v = "cmd"  -> "ps"

\* The variant the functions try after variant v has failed.
NextVariant(v) ==
  CASE v = "unix" -> "cmd"
    [] v = "cmd"  -> "ps"

\* IsPlaceholder with the check missing.
IsPlaceholder_NoCheck(out, ph) == FALSE

\* strings.TrimSpace(string(out)) == placeholder
IsPlaceholder(out, ph) == TrimSpace(out) = ph

\* formatted := strings.ToLower(string(out));
\* formatted = strings.TrimSpace(formatted)
LowerTrim(out) == TrimSpace(ToLower(out))

\* strings.Split(formatted, "_")[0]
FirstSegment(out) == SplitFirst(LowerTrim(out), "_")

\* if formatted == "x86_64" { return "x64", nil }; return formatted, nil
UnixArch(out) == IF LowerTrim(out) = StrX8664 THEN StrX64 ELSE LowerTrim(out)

\* return s, nil
ProbeReturn(s) ==
  /\ ppc' = "returned"
  /\ pResult' = s
  /\ pErr' = NoProbeErr

\* return "", fmt.Errorf(...)
ProbeFail(m, ue, ce, pe) ==
  /\ ppc' = "returned"
  /\ pResult' = <<>>
  /\ pErr' = AggregateErr(m, ue, ce, pe)

\* cmd := client.WslCommand(ctx, c); out, err := cmd.Output()
Exec(c, o) == execLog' = Append(execLog, [cmd |-> c, err |-> o.err, out |-> o.out])

\* GetClientOs: uname -s
OsUnix ==
  /\ probe = "os" /\ ppc = "unix"
  /\ \E o \in Outcomes(OsOutputs) :
       /\ Exec("uname -s", o)
       /\ unixErr' = o.err
       /\ IF o.err = NilErr
            THEN ProbeReturn(LowerTrim(o.out))
            ELSE /\ ppc' = NextVariant("unix")
                 /\ UNCHANGED <<pResult, pErr>>
  /\ UNCHANGED <<probe, cmdErr, psErr>>
  /\ UNCHANGED <<streamVars, unaryVars, envVars, cpVars>>

\* GetClientOs: echo %OS%
OsCmd ==
  /\ probe = "os" /\ ppc = "cmd"
  /\ \E o \in Outcomes(OsOutputs) :
       /\ Exec("echo %OS%", o)
       /\ cmdErr' = o.err
       /\ IF o.err = NilErr /\ ~IsPlaceholder(o.out, PlaceholderOsCmd)
            THEN ProbeReturn(FirstSegment(o.out))
            ELSE /\ ppc' = NextVariant("cmd")
                 /\ UNCHANGED <<pResult, pErr>>
  /\ UNCHANGED <<probe, unixErr, psErr>>
  /\ UNCHANGED <<streamVars, unaryVars, envVars, cpVars>>

\* GetClientOs: echo $env:OS, and the final error
OsPs ==
  /\ probe = "os" /\ ppc = "ps"
  /\ \E o \in Outcomes(OsOutputs) :
       /\ Exec("echo $env:OS", o)
       /\ psErr' = o.err
       /\ IF o.err = NilErr /\ ~IsPlaceholder(o.out, PlaceholderOsPs)
            THEN ProbeReturn(FirstSegment(o.out))
            ELSE ProbeFail("unable to determine os", unixErr, cmdErr, o.err)
  /\ UNCHANGED <<probe, unixErr, cmdErr>>
  /\ UNCHANGED <<streamVars, unaryVars, envVars, cpVars>>

\* GetClientArch: uname -m
ArchUnix ==
  /\ probe = "arch" /\ ppc = "unix"
  /\ \E o \in Outcomes(ArchOutputs) :
       /\ Exec("uname -m", o)
       /\ unixErr' = o.err
       /\ IF o.err = NilErr
            THEN ProbeReturn(UnixArch(o.out))
            ELSE /\ ppc' = NextVariant("unix")
                 /\ UNCHANGED <<pResult, pErr>>
  /\ UNCHANGED <<probe, cmdErr, psErr>>
  /\ UNCHANGED <<streamVars, unaryVars, envVars, cpVars>>

\* GetClientArch: echo %PROCESSOR_ARCHITECTURE%
ArchCmd ==
  /\ probe = "arch" /\ ppc = "cmd"
  /\ \E o \in Outcomes(ArchOutputs) :
       /\ Exec("echo %PROCESSOR_ARCHITECTURE%", o)
       /\ cmdErr' = o.err
       /\ IF o.err = NilErr /\ ~IsPlaceholder(o.out, PlaceholderArchCmd)
            THEN ProbeReturn(LowerTrim(o.out))
            ELSE /\ ppc' = NextVariant("cmd")
                 /\ UNCHANGED <<pResult, pErr>>
  /\ UNCHANGED <<probe, unixErr, psErr>>
  /\ UNCHANGED <<streamVars, unaryVars, envVars, cpVars>>

\* GetClientArch: echo $env:PROCESSOR_ARCHITECTURE, and the final error
ArchPs ==
  /\ probe = "arch" /\ ppc = "ps"
  /\ \E o \in Outcomes(ArchOutputs) :
       /\ Exec("echo $env:PROCESSOR_ARCHITECTURE", o)
       /\ psErr' = o.err
       /\ IF o.err = NilErr /\ ~IsPlaceholder(o.out, PlaceholderArchPs)
            THEN ProbeReturn(LowerTrim(o.out))
            ELSE ProbeFail("unable to determine architecture",
                           unixErr, cmdErr, o.err)
  /\ UNCHANGED <<probe, unixErr, cmdErr>>
  /\ UNCHANGED <<streamVars, unaryVars, envVars, cpVars>>

ProbeNext ==
  \/ OsUnix
  \/ OsCmd
  \/ OsPs
  \/ ArchUnix
  \/ ArchCmd
  \/ ArchPs

\* ------------------------------------------------------------------------
\* GetWshPath, DetectShell and GetHomeDir
\* ------------------------------------------------------------------------

DefaultWshPath ==
  <<"~", "/", ".", "w", "a", "v", "e", "t", "e", "r", "m", "/", "b", "i",
    "n", "/", "w", "s", "h">>

StrNone == <<"n", "o", "n", "e">>

StrBinBash == <<"/", "b", "i", "n", "/", "b", "a", "s", "h">>

StrTilde == <<"~">>

StrShellArg == <<" ", "s", "h", "e", "l", "l">>

OutWshUnix == <<"/", "b", "i", "n", "/", "w", "s", "h", "\n">>

OutWshWin == <<"C", ":", "\\", "w", "s", "h", ".", "e", "x", "e", "\r", "\n">>

OutNone == <<"n", "o", "n", "e", "\n">>

OutZsh == <<"/", "b", "i", "n", "/", "z", "s", "h", "\n">>

OutPwsh == <<"p", "w", "s", "h", "\n">>

OutHomeUnix == <<"/", "h", "o", "m", "e", "/", "u", "\n">>

OutHomeWin == <<"C", ":", "\\", "u", "\r", "\n">>

OutHomeRaw ==
  <<"%", "u", "s", "e", "r", "p", "r", "o", "f", "i", "l", "e", "%", "\n">>

\* The cmd directory probe of GetWshPath (line 62), a command line that echoes
\* %userprofile%\.waveterm\bin\wsh.exe under cmd and "none" elsewhere.
WshDirProbe == "cmd dir probe of wsh.exe, else echo none"

\* What the remote can print for the wsh lookups.
WshOutputs == {OutWshUnix, OutWshWin, OutNone, <<>>}

\* What the remote can print for `wsh shell`.
ShellOutputs == {OutZsh, OutPwsh, <<>>}

\* What the remote can print for the home directory commands.
HomeOutputs == {OutHomeUnix, OutHomeWin, OutHomeRaw, <<>>}

EnvInit ==
  /\ fn \in {"GetWshPath", "DetectShell", "GetHomeDir"}
  /\ epc = IF fn = "GetHomeDir" THEN "home" ELSE "which"
  /\ eLog = <<>>
  /\ wshPath = <<>>
  /\ eResult = <<>>
  /\ eErr = NotReturned

\* cmd := client.WslCommand(ctx, c + arg); out, err := cmd.Output()
EnvExec(c, arg, o) ==
  eLog' = Append(eLog, [cmd |-> c, arg |-> arg, err |-> o.err, out |-> o.out])

\* return s, nil
EnvReturn(s, e) ==
  /\ epc' = "returned"
  /\ eResult' = s
  /\ eErr' = e

\* GetWshPath returns pth: to its caller, or into DetectShell's wshPath.
WshPathReturn(pth) ==
  /\ wshPath' = pth
  /\ IF fn = "GetWshPath"
       THEN EnvReturn(pth, NilErr)
       ELSE /\ epc' = "shell"
            /\ UNCHANGED <<eResult, eErr>>

\* GetWshPath: which wsh
WshWhich ==
  /\ fn \in {"GetWshPath", "DetectShell"} /\ epc = "which"
  /\ \E o \in Outcomes(WshOutputs) :
       /\ EnvExec("which wsh", <<>>, o)
       /\ IF o.err = NilErr
            THEN WshPathReturn(TrimSpace(o.out))
            ELSE /\ epc' = "where"
                 /\ UNCHANGED <<wshPath, eResult, eErr>>
  /\ UNCHANGED fn
  /\ UNCHANGED <<streamVars, unaryVars, probeVars, cpVars>>

\* GetWshPath: where.exe wsh
WshWhere ==
  /\ fn \in {"GetWshPath", "DetectShell"} /\ epc = "where"
  /\ \E o \in Outcomes(WshOutputs) :
       /\ EnvExec("where.exe wsh", <<>>, o)
       /\ IF o.err = NilErr
            THEN WshPathReturn(TrimSpace(o.out))
            ELSE /\ epc' = "dir"
                 /\ UNCHANGED <<wshPath, eResult, eErr>>
  /\ UNCHANGED fn
  /\ UNCHANGED <<streamVars, unaryVars, probeVars, cpVars>>

\* GetWshPath: the cmd directory probe, and the default path
WshDir ==
  /\ fn \in {"GetWshPath", "DetectShell"} /\ epc = "dir"
  /\ \E o \in Outcomes(WshOutputs) :
       /\ EnvExec(WshDirProbe, <<>>, o)
       /\ IF o.err = NilErr /\ TrimSpace(o.out) # StrNone
            THEN WshPathReturn(TrimSpace(o.out))
            ELSE WshPathReturn(DefaultWshPath)
  /\ UNCHANGED fn
  /\ UNCHANGED <<streamVars, unaryVars, probeVars, cpVars>>

\* ShellOnError with the error of `wsh shell` propagated.
ShellOnError_Propagates(e) == [result |-> <<>>, err |-> e]

\* return "/bin/bash", nil
ShellOnError(e) == [result |-> StrBinBash, err |-> NilErr]

\* DetectShell: wshPath + " shell"
ShellCmd ==
  /\ fn = "DetectShell" /\ epc = "shell"
  /\ \E o \in Outcomes(ShellOutputs) :
       /\ EnvExec("wshPath shell", wshPath \o StrShellArg, o)
       /\ IF o.err # NilErr
            THEN EnvReturn(ShellOnError(o.err).result, ShellOnError(o.err).err)
            ELSE EnvReturn(TrimSpace(o.out), NilErr)
  /\ UNCHANGED <<fn, wshPath>>
  /\ UNCHANGED <<streamVars, unaryVars, probeVars, cpVars>>

\* GetHomeDir: echo "$HOME"
HomePosix ==
  /\ fn = "GetHomeDir" /\ epc = "home"
  /\ \E o \in Outcomes(HomeOutputs) :
       /\ EnvExec("echo \"$HOME\"", <<>>, o)
       /\ IF o.err = NilErr
            THEN EnvReturn(TrimSpace(o.out), NilErr)
            ELSE /\ epc' = "userprofile"
                 /\ UNCHANGED <<eResult, eErr>>
  /\ UNCHANGED <<fn, wshPath>>
  /\ UNCHANGED <<streamVars, unaryVars, probeVars, cpVars>>

\* GetHomeDir: echo %userprofile%, and the default
HomeCmd ==
  /\ fn = "GetHomeDir" /\ epc = "userprofile"
  /\ \E o \in Outcomes(HomeOutputs) :
       /\ EnvExec("echo %userprofile%", <<>>, o)
       /\ IF o.err = NilErr
            THEN EnvReturn(TrimSpace(o.out), NilErr)
            ELSE EnvReturn(StrTilde, NilErr)
  /\ UNCHANGED <<fn, wshPath>>
  /\ UNCHANGED <<streamVars, unaryVars, probeVars, cpVars>>

EnvNext ==
  \/ WshWhich
  \/ WshWhere
  \/ WshDir
  \/ ShellCmd
  \/ HomePosix
  \/ HomeCmd

\* ------------------------------------------------------------------------
\* CpHostToRemote and hasBashInstalled
\* ------------------------------------------------------------------------

StrTempSuffix == <<".", "t", "e", "m", "p">>

StrDot == <<".">>

StrSlash == <<"/">>

DestPlain == <<"/", "o", "p", "t", "/", "b", "i", "n", "/", "w", "s", "h">>

DestBare == <<"w", "s", "h">>

DestPlus == <<"~", "/", "c", "+", "+", "/", "w", "s", "h">>

OutBash == <<"/", "b", "i", "n", "/", "b", "a", "s", "h", "\n">>

\* The destPath arguments tried: DefaultWshPath, a path without directory,
\* paths with and without characters the template engine rewrites.
DestPaths == {DefaultWshPath, DestPlain, DestBare, DestPlus}

\* What the remote can print for the bash lookups.
BashOutputs == {OutBash, <<>>}

\* Errors of cmd.StdinPipe, cmd.Start, os.Open and cmd.Wait.
ErrPipe == "StdinPipe: pipe error"

ErrStart == "Start: exec error"

ErrOpen == "open: no such file"

ErrKilled == "signal: killed"

ErrExit == "exit status 1"

\* fmt.Errorf("cannot open local file %s to send to host: %v", sourcePath, err)
OpenError(e) == "cannot open local file to send to host: " \o e

\* Path separators of filepath on the host.
Separators == {"/", "\\"}

\* Index of the last separator of a path, 0 when it has none.
RECURSIVE LastSeparator(_, _)
LastSeparator(s, i) ==
  IF i = 0 THEN 0
  ELSE IF s[i] \in Separators THEN i
  ELSE LastSeparator(s, i - 1)

\* filepath.ToSlash
ToSlash(s) == [i \in 1..Len(s) |-> IF s[i] \in Separators THEN "/" ELSE s[i]]

\* filepath.Dir, for a path that is already clean.
Dir(s) ==
  LET i == LastSeparator(s, Len(s)) IN
    IF i = 0 THEN StrDot
    ELSE IF i = 1 THEN <<s[1]>>
    ELSE SubSeq(s, 1, i - 1)

\* installWords
InstallWords(dest) ==
  [installDir  |-> ToSlash(Dir(dest)),
   tempPath    |-> dest \o StrTempSuffix,
   installPath |-> dest]

\* What html/template writes for one character of a value in text context.
EscapeChar(c) ==
  CASE c = "+"  -> <<"&", "#", "4", "3", ";">>
    [] c = "&"  -> <<"&", "a", "m", "p", ";">>
    [] c = "'"  -> <<"&", "#", "3", "9", ";">>
    [] c = "\"" -> <<"&", "#", "3", "4", ";">>
    [] c = "<"  -> <<"&", "l", "t", ";">>
    [] c = ">"  -> <<"&", "g", "t", ";">>
    [] OTHER    -> <<c>>

\* The escaping html/template applies to a {{.x}} in text context.
RECURSIVE HTMLEscape(_)
HTMLEscape(s) ==
  IF s = <<>> THEN <<>> ELSE EscapeChar(Head(s)) \o HTMLEscape(Tail(s))

\* A template is a sequence of parts: literal text, or an action {{.name}}.
Lit(t) == [text |-> t, var |-> ""]

Var(n) == [text |-> "", var |-> n]

\* installTemplateRawBash
installTemplateRawBash ==
  <<Lit("bash -c ' \\\nmkdir -p "), Var("installDir"),
    Lit("; \\\ncat > "), Var("tempPath"),
    Lit("; \\\nmv "), Var("tempPath"), Lit(" "), Var("installPath"),
    Lit("; \\\nchmod a+x "), Var("installPath"), Lit(";' \\\n")>>

\* installTemplateRawDefault
installTemplateRawDefault ==
  <<Lit(" \\\nmkdir -p "), Var("installDir"),
    Lit("; \\\ncat > "), Var("tempPath"),
    Lit("; \\\nmv "), Var("tempPath"), Lit(" "), Var("installPath"),
    Lit("; \\\nchmod a+x "), Var("installPath"), Lit("; \\\n")>>

\* installTemplate.Execute(installCmd, installWords): each part of the output
\* is the literal text, or the escaped value of the word.
Execute(tmpl, words) ==
  [i \in 1..Len(tmpl) |->
     IF tmpl[i].var = ""
       THEN [text |-> tmpl[i].text, val |-> <<>>]
       ELSE [text |-> "", val |-> HTMLEscape(words[tmpl[i].var])]]

\* SelectTemplate with the two templates the wrong way round.
SelectTemplate_Swapped(bash) ==
  IF bash THEN installTemplateRawDefault ELSE installTemplateRawBash

\* selectedTemplateRaw
SelectTemplate(bash) ==
  IF bash THEN installTemplateRawBash ELSE installTemplateRawDefault

CpInit ==
  /\ destPath \in DestPaths
  /\ cpc = "which_bash"
  /\ bashLog = <<>>
  /\ bashInstalled = FALSE
  /\ script = <<>>
  /\ proc = "none"
  /\ copy = "none"
  /\ cpLog = <<>>
  /\ cpErr = NotReturned

\* return err
CpReturn(e) ==
  /\ cpc' = "returned"
  /\ cpErr' = e

\* One thing that happened, with the error it returned.
Event(ev, e) == cpLog' = Append(cpLog, [ev |-> ev, err |-> e])

\* hasBashInstalled returns b, nil: CpHostToRemote goes on to the template.
HasBashReturn(b) ==
  /\ bashInstalled' = b
  /\ cpc' = "render"

\* hasBashInstalled: which bash
HasBashWhich ==
  /\ cpc = "which_bash"
  /\ \E o \in Outcomes(BashOutputs) :
       /\ bashLog' = Append(bashLog, [cmd |-> "which bash", err |-> o.err,
                                      out |-> o.out])
       /\ IF o.err = NilErr /\ Len(o.out) # 0
            THEN HasBashReturn(TRUE)
            ELSE /\ cpc' = "where_bash"
                 /\ UNCHANGED bashInstalled
  /\ UNCHANGED <<destPath, script, proc, copy, cpLog, cpErr>>
  /\ UNCHANGED <<streamVars, unaryVars, probeVars, envVars>>

\* hasBashInstalled: where.exe bash, and return false, nil
HasBashWhere ==
  /\ cpc = "where_bash"
  /\ \E o \in Outcomes(BashOutputs) :
       /\ bashLog' = Append(bashLog, [cmd |-> "where.exe bash", err |-> o.err,
                                      out |-> o.out])
       /\ HasBashReturn(o.err = NilErr /\ Len(o.out) # 0)
  /\ UNCHANGED <<destPath, script, proc, copy, cpLog, cpErr>>
  /\ UNCHANGED <<streamVars, unaryVars, probeVars, envVars>>

\* The template choice, installWords, the rendering and client.WslCommand.
RenderScript ==
  /\ cpc = "render"
  /\ script' = Execute(SelectTemplate(bashInstalled), InstallWords(destPath))
  /\ cpc' = "pipe"
  /\ UNCHANGED <<destPath, bashLog, bashInstalled, proc, copy, cpLog, cpErr>>
  /\ UNCHANGED <<streamVars, unaryVars, probeVars, envVars>>

\* installStdin, err := cmd.StdinPipe()
OpenStdinPipe ==
  /\ cpc = "pipe"
  /\ \E e \in {NilErr, ErrPipe} :
       /\ Event("StdinPipe", e)
       /\ IF e # NilErr
            THEN CpReturn(e)
            ELSE /\ cpc' = "start"
                 /\ UNCHANGED cpErr
  /\ UNCHANGED <<destPath, bashLog, bashInstalled, script, proc, copy>>
  /\ UNCHANGED <<streamVars, unaryVars, probeVars, envVars>>

\* err = cmd.Start()
StartProcess ==
  /\ cpc = "start"
  /\ \E e \in {NilErr, ErrStart} :
       /\ Event("Start", e)
       /\ IF e # NilErr
            THEN /\ CpReturn(e)
                 /\ UNCHANGED proc
            ELSE /\ cpc' = "open"
                 /\ proc' = "running"
                 /\ UNCHANGED cpErr
  /\ UNCHANGED <<destPath, bashLog, bashInstalled, script, copy>>
  /\ UNCHANGED <<streamVars, unaryVars, probeVars, envVars>>

\* input, err := os.Open(sourcePath), and the start of the copy goroutine.
OpenSource ==
  /\ cpc = "open"
  /\ \E e \in {NilErr, ErrOpen} :
       /\ Event("Open", e)
       /\ IF e # NilErr
            THEN /\ CpReturn(OpenError(e))
                 /\ UNCHANGED copy
            ELSE /\ cpc' = "wait"
                 /\ copy' = "copying"
                 /\ UNCHANGED cpErr
  /\ UNCHANGED <<destPath, bashLog, bashInstalled, script, proc>>
  /\ UNCHANGED <<streamVars, unaryVars, probeVars, envVars>>

\* io.Copy(installStdin, input) returns: the file is written, or the write
\* failed because the process has gone.  Its result is dropped.
CopyDone ==
  /\ copy = "copying"
  /\ \E e \in IF proc = "running" THEN {NilErr} ELSE {NilErr, "write: broken pipe"} :
       Event("CopyDone", e)
  /\ copy' = "copied"
  /\ UNCHANGED <<destPath, cpc, bashLog, bashInstalled, script, proc, cpErr>>
  /\ UNCHANGED <<streamVars, unaryVars, probeVars, envVars>>

\* process := cmd.GetProcess(); process.Kill()
KillProcess ==
  /\ copy = "copied"
  /\ Event("Kill", IF proc = "running" THEN NilErr
                                       ELSE "os: process already finished")
  /\ proc' = IF proc = "running" THEN "killed" ELSE proc
  /\ copy' = "done"
  /\ UNCHANGED <<destPath, cpc, bashLog, bashInstalled, script, cpErr>>
  /\ UNCHANGED <<streamVars, unaryVars, probeVars, envVars>>

\* The remote process ends by itself: the script fails or finishes, or the
\* remote side goes away.
ProcessExits ==
  /\ proc = "running"
  /\ proc' = "exited"
  /\ Event("Exit", NilErr)
  /\ UNCHANGED <<destPath, cpc, bashLog, bashInstalled, script, copy, cpErr>>
  /\ UNCHANGED <<streamVars, unaryVars, probeVars, envVars>>

\* WaitResult with the error of cmd.Wait returned.
WaitResult_Propagates(e) == e

\* cmd.Wait(); return nil
WaitResult(e) == NilErr

\* cmd.Wait() returns once the process has ended, and the call returns.
WaitReturns ==
  /\ cpc = "wait"
  /\ proc \in {"exited", "killed"}
  /\ \E e \in IF proc = "killed" THEN {ErrKilled} ELSE {NilErr, ErrExit} :
       /\ Event("Wait", e)
       /\ CpReturn(WaitResult(e))
  /\ UNCHANGED <<destPath, bashLog, bashInstalled, script, proc, copy>>
  /\ UNCHANGED <<streamVars, unaryVars, probeVars, envVars>>

CpNext ==
  \/ HasBashWhich
  \/ HasBashWhere
  \/ RenderScript
  \/ OpenStdinPipe
  \/ StartProcess
  \/ OpenSource
  \/ CopyDone
  \/ KillProcess
  \/ ProcessExits
  \/ WaitReturns

\* ------------------------------------------------------------------------
\* Specifications
\* ------------------------------------------------------------------------

\* The call or probe a specification does not run: not started, and it stays so.
StreamIdle == StreamInit /\ w = "nil"

UnaryIdle == UnaryInit /\ uw = "nil" /\ command = "message" /\ opts = NilOpts

ProbeIdle == ProbeInit /\ probe = "os"

EnvIdle == EnvInit /\ fn = "GetHomeDir"

CpIdle == CpInit /\ destPath = DefaultWshPath

\* One streaming call.
Init == StreamInit /\ UnaryIdle /\ ProbeIdle /\ EnvIdle /\ CpIdle

Next == StreamNext

Spec == Init /\ [][Next]_vars

\* One streaming call whose consumer keeps receiving: the Go scheduler runs
\* every goroutine that can run, the consumer included.
FairSpec == Init /\ [][Next]_vars /\ WF_vars(Next)

\* One streaming call whose consumer may stop receiving at any time.  The
\* scheduler still runs the helper's goroutine whenever it can run.
AbandonNext ==
  \/ StreamCall
  \/ LoopResponseDone
  \/ LoopNextResponse
  \/ LoopDecode
  \/ Deliver
  \/ CloseChan
  \/ ObserveClose
  \/ Abandon

AbandonSpec ==
  Init /\ [][AbandonNext]_vars /\ WF_vars(ProducerNext) /\ WF_vars(Deliver)

\* One unary call.
UnaryStart == UnaryInit /\ StreamIdle /\ ProbeIdle /\ EnvIdle /\ CpIdle

UnaryStep == UnaryNext

UnarySpec == UnaryStart /\ [][UnaryStep]_vars

\* One run of GetClientOs or of GetClientArch.
ProbeStart == ProbeInit /\ StreamIdle /\ UnaryIdle /\ EnvIdle /\ CpIdle

ProbeStep == ProbeNext

ProbeSpec == ProbeStart /\ [][ProbeStep]_vars

\* One run of GetWshPath, of DetectShell or of GetHomeDir.
EnvStart == EnvInit /\ StreamIdle /\ UnaryIdle /\ ProbeIdle /\ CpIdle

EnvStep == EnvNext

EnvSpec == EnvStart /\ [][EnvStep]_vars

\* One call of CpHostToRemote, its copy goroutine and the remote process.
CpStart == CpInit /\ StreamIdle /\ UnaryIdle /\ ProbeIdle /\ EnvIdle

CpStep == CpNext

CpSpec == CpStart /\ [][CpStep]_vars

\* ------------------------------------------------------------------------
\* Properties of the streaming call
\* ------------------------------------------------------------------------

Last(s) == s[Len(s)]

IsPrefix(s, t) == Len(s) <= Len(t) /\ \A i \in 1..Len(s) : s[i] = t[i]

\* C1: respChan is closed at most once and exactly once by the time the
\* goroutine has exited; it is closed only after a terminal error was
\* delivered or ResponseDone returned true; and once an error value has been
\* delivered nothing more is delivered or offered on the channel.
C1_ClosedOnceAfterTerminal ==
  /\ closeCount <= 1
  /\ (spc = "exit") => (closeCount = 1)
  /\ (closeCount >= 1) =>
        \/ doneSeen
        \/ (received # <<>> /\ Last(received).Error # NilErr)
  /\ \A i \in 1..Len(received) :
        (received[i].Error # NilErr) => (i = Len(received) /\ sending = NoSend)

\* A stream that delivered responses, then an error, and was seen closed.
C1_Witness ==
  /\ consumerClosed
  /\ closeCount = 1
  /\ Len(received) >= 2
  /\ Last(received).Error # NilErr

\* C2: when the initiation fails (nil w, or SendComplexRequest's error) the
\* channel carries exactly one value, the initiation's error, is closed only
\* after it, and ResponseDone and NextResponse are never called.
C2_InitFailureOneError ==
  (initErr # NilErr) =>
    /\ nResponseDone = 0
    /\ nNextResponse = 0
    /\ Len(received) <= 1
    /\ \A i \in 1..Len(received) : received[i] = ErrorUnion(initErr)
    /\ (Len(received) = 1) => (sending = NoSend)
    /\ (closeCount >= 1) => (Len(received) = 1 /\ closeCount = 1)
    /\ (w = "nil") <=> (initErr = ErrNilWshrpc)

\* A failed SendComplexRequest whose single error the consumer got before
\* it saw the channel closed.
C2_Witness ==
  /\ initErr \in TransportErrs
  /\ consumerClosed
  /\ received = <<ErrorUnion(initErr)>>

\* The responses among the received values, as the decoded data.
ReceivedResponses ==
  LET rs == SelectSeq(received, LAMBDA u : u.Error = NilErr)
  IN  [i \in 1..Len(rs) |-> rs[i].Response]

\* What the decodable envelopes the transport produced decode to, in order.
ProducedDecoded ==
  LET ds == SelectSeq(produced, LAMBDA r : ReUnmarshal(r).err = NilErr)
  IN  [i \in 1..Len(ds) |-> <<ReUnmarshal(ds[i]).respData>>]

\* C3: the consumer receives the decoded responses in the order NextResponse
\* returned them, none dropped or duplicated: what it has received is a
\* prefix of what was produced, and once the transport reported done and the
\* consumer saw the close it has received exactly the n produced responses.
C3_DeliveredInOrder ==
  /\ IsPrefix(ReceivedResponses, ProducedDecoded)
  /\ (consumerClosed /\ doneSeen) =>
        /\ ReceivedResponses = ProducedDecoded
        /\ Len(received) = Len(produced)
        /\ \A i \in 1..Len(received) : received[i].Error = NilErr

\* Three responses, the first two different, then done and closed.
C3_Witness ==
  /\ consumerClosed
  /\ doneSeen
  /\ Len(produced) = 3
  /\ Len(received) = 3
  /\ produced[1] # produced[2]

\* A union value carries exactly one of a response and an error.
ExactlyOneSet(u) == (u.Error # NilErr) # (u.Response # NoResponse)

\* C4: every value delivered on respChan, and every value offered on it,
\* carries exactly one of {response, error}.
C4_ExactlyOneOfResponseOrError ==
  /\ \A i \in 1..Len(received) : ExactlyOneSet(received[i])
  /\ (sending # NoSend) => ExactlyOneSet(sending)

\* A response whose data is T's zero value, then a decode error, delivered.
C4_Witness ==
  /\ Len(received) >= 2
  /\ received[1] = ResponseUnion(ZeroT)
  /\ Last(received) = ErrorUnion(ErrDecode)

\* ------------------------------------------------------------------------
\* Properties of the unary call (UnarySpec)
\* ------------------------------------------------------------------------

\* C5: with a non-nil transport and opts.NoResponse set, the helper calls
\* SendCommand exactly once, never SendRpcRequest, never decodes, and returns
\* T's zero value with SendCommand's error, nil when SendCommand succeeded.
C5_NoResponseSendsCommandOnly ==
  (uw = "rpc" /\ opts.NoResponse) =>
    /\ Len(callLog) <= 1
    /\ \A i \in 1..Len(callLog) : callLog[i].op = "SendCommand"
    /\ nReUnmarshal = 0
    /\ uresp = NoEnvelope
    /\ (upc = "returned") =>
         /\ Len(callLog) = 1
         /\ retData = ZeroT
         /\ retErr = sendErr

\* A fire-and-forget call that returned after a successful SendCommand.
C5_Witness ==
  /\ uw = "rpc"
  /\ opts.NoResponse
  /\ upc = "returned"
  /\ sendErr = NilErr
  /\ retErr = NilErr
  /\ Len(callLog) = 1

\* C6: with a nil transport the call returns T's zero value and a non-nil
\* error and invokes no transport operation and no decode, whatever opts is.
C6_NilTransportFails ==
  (uw = "nil") =>
    /\ callLog = <<>>
    /\ nReUnmarshal = 0
    /\ upc \in {"call", "returned"}
    /\ (upc = "returned") => (retData = ZeroT /\ retErr = ErrNilWshrpc)

\* A nil transport called with NoResponse set, returned.
C6_Witness ==
  /\ uw = "nil"
  /\ opts.NoResponse
  /\ upc = "returned"

\* C7: a call invokes at most one transport send primitive, once; a failed
\* send returns the transport's error without decoding; a failed decode
\* returns the decode error; a nil error means every step taken succeeded.
C7_FirstErrorNoRetry ==
  /\ Len(callLog) <= 1
  /\ nReUnmarshal <= 1
  /\ (sendErr # NilErr) => (nReUnmarshal = 0)
  /\ (upc = "returned") =>
       /\ (sendErr # NilErr) => (retErr = sendErr)
       /\ (sendErr = NilErr /\ decodeErr # NilErr) => (retErr = decodeErr)
       /\ (retErr = NilErr) =>
            /\ uw = "rpc"
            /\ Len(callLog) = 1
            /\ sendErr = NilErr
            /\ decodeErr = NilErr
       /\ (retErr # NilErr) => (retData = ZeroT)

\* A call whose send succeeded and whose decode failed, returned.
C7_Witness ==
  /\ upc = "returned"
  /\ Len(callLog) = 1
  /\ callLog[1].op = "SendRpcRequest"
  /\ sendErr = NilErr
  /\ nReUnmarshal = 1
  /\ retErr = ErrDecode

\* ------------------------------------------------------------------------
\* Properties of the probes (ProbeSpec)
\* ------------------------------------------------------------------------

\* The commands of a probe's variants, in the order POSIX, cmd, PowerShell.
VariantCmds(p) ==
  IF p = "os"
    THEN <<"uname -s", "echo %OS%", "echo $env:OS">>
    ELSE <<"uname -m", "echo %PROCESSOR_ARCHITECTURE%",
           "echo $env:PROCESSOR_ARCHITECTURE">>

\* The unexpanded placeholder of variant k; the POSIX variant has none.
VariantPlaceholder(p, k) ==
  IF p = "os"
    THEN <<<<>>, PlaceholderOsCmd, PlaceholderOsPs>>[k]
    ELSE <<<<>>, PlaceholderArchCmd, PlaceholderArchPs>>[k]

\* Execution k of the log failed: an execution error, or placeholder output.
VariantFailed(k) ==
  \/ execLog[k].err # NilErr
  \/ (k >= 2 /\ TrimSpace(execLog[k].out) = VariantPlaceholder(probe, k))

\* C8: the variants are executed in the order POSIX, cmd, PowerShell, and
\* variant k is executed only after every earlier variant was executed and
\* failed; so none is executed after one succeeded.
C8_VariantsInOrder ==
  /\ Len(execLog) <= 3
  /\ \A k \in 1..Len(execLog) :
       /\ execLog[k].cmd = VariantCmds(probe)[k]
       /\ \A j \in 1..(k - 1) : VariantFailed(j)
  /\ (ppc = "returned") => (Len(execLog) = 3 \/ ~VariantFailed(Len(execLog)))

\* Only the second variant succeeded: the first was executed and failed.
C8_Witness ==
  /\ ppc = "returned"
  /\ Len(execLog) = 2
  /\ execLog[1].err # NilErr
  /\ ~VariantFailed(2)
  /\ pErr = NoProbeErr

StrWindowsNT == <<"W", "i", "n", "d", "o", "w", "s", "_", "N", "T">>

StrWindows == <<"w", "i", "n", "d", "o", "w", "s">>

\* C9: GetClientOs returns the normalized output of the first variant that
\* succeeds, a placeholder output counting as a failure: with `uname -s`
\* failing, `echo %OS%` answering %OS% and `echo $env:OS` answering
\* Windows_NT the result is "windows" with a nil error.
C9_OsOfFirstSuccess ==
  (probe = "os" /\ ppc = "returned") =>
    /\ (pErr = NoProbeErr) =>
         LET k == Len(execLog) IN
           /\ k >= 1
           /\ ~VariantFailed(k)
           /\ \A j \in 1..(k - 1) : VariantFailed(j)
           /\ pResult = IF k = 1
                          THEN TrimSpace(ToLower(execLog[k].out))
                          ELSE SplitFirst(TrimSpace(ToLower(execLog[k].out)),
                                          "_")
    /\ ( /\ Len(execLog) = 3
         /\ execLog[1].err # NilErr
         /\ execLog[2].err = NilErr
         /\ TrimSpace(execLog[2].out) = PlaceholderOsCmd
         /\ execLog[3].err = NilErr
         /\ TrimSpace(execLog[3].out) = StrWindowsNT )
       => (pResult = StrWindows /\ pErr = NoProbeErr)

\* uname fails, cmd echoes the placeholder, PowerShell answers Windows_NT.
C9_Witness ==
  /\ probe = "os"
  /\ ppc = "returned"
  /\ Len(execLog) = 3
  /\ execLog[1].err # NilErr
  /\ execLog[2].err = NilErr
  /\ execLog[2].out = OutOsCmdRaw
  /\ execLog[3].out = OutWindowsNT
  /\ pResult = StrWindows

\* Every variant of the probe was executed and failed.
AllVariantsFailed ==
  /\ Len(execLog) = 3
  /\ \A k \in 1..3 : VariantFailed(k)

\* C10: a probe returns an error exactly when all three variants failed, and
\* then returns an empty result and an aggregate error that names an
\* underlying error for each of the three variants.
C10_AggregateNamesEveryVariant ==
  (ppc = "returned") =>
    /\ (pErr # NoProbeErr) <=> AllVariantsFailed
    /\ AllVariantsFailed =>
         /\ pResult = <<>>
         /\ pErr.unix # NilErr
         /\ pErr.cmd # NilErr
         /\ pErr.powershell # NilErr

\* ------------------------------------------------------------------------
\* Properties of the probes' normalization (ProbeSpec)
\* ------------------------------------------------------------------------

\* normalizeArchitecture: x86_64 becomes x64, every other value is unchanged.
NormalizedArch(s) == IF s = StrX8664 THEN StrX64 ELSE s

\* C11: the architecture GetClientArch returns is the lowercased, trimmed
\* output of the first successful variant with x86_64 replaced by x64,
\* whichever of the three variants produced it.
C11_ArchNormalizedInEveryVariant ==
  (probe = "arch" /\ ppc = "returned" /\ pErr = NoProbeErr) =>
    /\ ~VariantFailed(Len(execLog))
    /\ pResult =
         NormalizedArch(TrimSpace(ToLower(execLog[Len(execLog)].out)))

\* The character is one of the string's.
Contains(s, c) == \E i \in 1..Len(s) : s[i] = c

\* C18: every OS string GetClientOs returns without error is lowercased,
\* trimmed and cut at its first `_`, so it contains no `_`, whichever
\* variant produced it, `uname -s` included.
C18_OsHasNoUnderscore ==
  (probe = "os" /\ ppc = "returned" /\ pErr = NoProbeErr) =>
    /\ ~Contains(pResult, "_")
    /\ pResult =
         SplitFirst(TrimSpace(ToLower(execLog[Len(execLog)].out)), "_")

\* ------------------------------------------------------------------------
\* Properties of the stream's background task (AbandonSpec, FairSpec)
\* ------------------------------------------------------------------------

\* A NextResponse call has returned an error: it produced no envelope.
TransportErrored == nNextResponse > Len(produced)

\* C17: with a consumer that has stopped receiving, once ResponseDone has
\* returned true or NextResponse has returned an error the background task
\* terminates and closes respChan.
C17_AbandonedStreamStillCloses ==
  (abandoned /\ (doneSeen \/ TransportErrored))
    ~> (spc = "exit" /\ closeCount = 1)

\* The task has an error in hand, or has delivered one.
ErrorSeen ==
  \/ TransportErrored
  \/ (sending # NoSend /\ sending.Error # NilErr)
  \/ \E i \in 1..Len(received) : received[i].Error # NilErr

\* Envelopes pulled by NextResponse and not yet handed to the consumer, as a
\* response or as the error of their decoding.
PulledUndelivered ==
  Len(produced)
    - Len(SelectSeq(received, LAMBDA u : u.Error \in {NilErr, ErrDecode}))

\* C19: every NextResponse call directly follows a ResponseDone call of its
\* own that returned false, none is made after ResponseDone returned true or
\* after an error; at most one pulled item is undelivered at any time; and,
\* with a consumer that keeps receiving and a transport that reports done or
\* an error in the end, the task terminates with respChan closed.
C19_PullLoopTerminates ==
  /\ [](PulledUndelivered \in {0, 1} /\ nNextResponse <= nResponseDone)
  /\ [][(nNextResponse' # nNextResponse) =>
          /\ nResponseDone = nNextResponse + 1
          /\ ~doneSeen
          /\ ~ErrorSeen]_vars
  /\ <>(spc = "exit" /\ closeCount = 1)

\* The task pulled MaxResp responses, was told done, closed and exited.
C19_Witness ==
  /\ spc = "exit"
  /\ closeCount = 1
  /\ doneSeen
  /\ nNextResponse >= 3
  /\ Len(received) = nNextResponse

\* ------------------------------------------------------------------------
\* Properties of GetWshPath, DetectShell and GetHomeDir (EnvSpec)
\* ------------------------------------------------------------------------

\* The commands of GetWshPath, in order.
WshCmds == <<"which wsh", "where.exe wsh", WshDirProbe>>

\* Lookup k of GetWshPath found nothing: an execution error, or "none" from
\* the directory probe.
WshLookupFailed(k) ==
  \/ eLog[k].err # NilErr
  \/ (k = 3 /\ TrimSpace(eLog[k].out) = StrNone)

\* C12: GetWshPath tries `which wsh`, `where.exe wsh` and the cmd directory
\* probe in that order and, for every combination of their outcomes, returns
\* a non-empty path; it returns the default path only when all three failed.
C12_WshPathAlwaysUsable ==
  (fn = "GetWshPath" /\ epc = "returned") =>
    /\ \A k \in 1..Len(eLog) :
         /\ eLog[k].cmd = WshCmds[k]
         /\ \A j \in 1..(k - 1) : WshLookupFailed(j)
    /\ eResult # <<>>
    /\ (eResult = DefaultWshPath) =>
         (Len(eLog) = 3 /\ \A k \in 1..3 : WshLookupFailed(k))

\* C16: GetHomeDir returns the trimmed output of `echo "$HOME"`, else of
\* `echo %userprofile%`, and `~` exactly when both executions failed;
\* DetectShell runs the `shell` subcommand at the path GetWshPath gave,
\* returns /bin/bash when that fails, and never returns a non-nil error.
C16_NonCriticalProbesDefault ==
  /\ (fn = "GetHomeDir" /\ epc = "returned") =>
       /\ Len(eLog) \in {1, 2}
       /\ eLog[1].cmd = "echo \"$HOME\""
       /\ (Len(eLog) = 2) <=> (eLog[1].err # NilErr)
       /\ (Len(eLog) = 2) => (eLog[2].cmd = "echo %userprofile%")
       /\ eResult =
            IF eLog[1].err = NilErr THEN TrimSpace(eLog[1].out)
            ELSE IF eLog[2].err = NilErr THEN TrimSpace(eLog[2].out)
            ELSE StrTilde
  /\ (fn = "DetectShell" /\ epc = "returned") =>
       /\ eErr = NilErr
       /\ Last(eLog).cmd = "wshPath shell"
       /\ Last(eLog).arg = wshPath \o StrShellArg
       /\ (Last(eLog).err # NilErr) => (eResult = StrBinBash)
       /\ (Last(eLog).err = NilErr) => (eResult = TrimSpace(Last(eLog).out))

\* DetectShell whose `shell` subcommand failed, returned.
C16_Witness ==
  /\ fn = "DetectShell"
  /\ epc = "returned"
  /\ Last(eLog).err # NilErr
  /\ eResult = StrBinBash
  /\ eErr = NilErr

\* ------------------------------------------------------------------------
\* Properties of CpHostToRemote (CpSpec)
\* ------------------------------------------------------------------------

\* The event is in the log.
Happened(ev) == \E i \in 1..Len(cpLog) : cpLog[i].ev = ev

\* Where the event is in the log.
At(ev) == CHOOSE i \in 1..Len(cpLog) : cpLog[i].ev = ev

\* The operation was tried and returned an error.
Failed(ev) == Happened(ev) /\ cpLog[At(ev)].err # NilErr

\* C13: a failure to open the stdin pipe, to start the process or to open
\* the local file makes CpHostToRemote return a non-nil error at once, with
\* no later step taken and no copy started; in every other case it returns
\* nil, whatever the copy, the kill and the wait returned.
C13_ReportsOnlySetupFailures ==
  (cpc = "returned") =>
    /\ Failed("StdinPipe") =>
         /\ cpErr = cpLog[At("StdinPipe")].err
         /\ ~Happened("Start") /\ ~Happened("Open")
    /\ Failed("Start") =>
         /\ cpErr = cpLog[At("Start")].err
         /\ ~Happened("Open")
    /\ Failed("Open") => (cpErr = OpenError(cpLog[At("Open")].err))
    /\ (cpErr # NilErr) <=>
         (Failed("StdinPipe") \/ Failed("Start") \/ Failed("Open"))
    /\ (cpErr # NilErr) =>
         (copy = "none" /\ ~Happened("CopyDone") /\ ~Happened("Wait"))
    /\ (cpErr = NilErr) => Happened("Wait")

\* A call that returned nil although the wait reported the kill.
C13_Witness ==
  /\ cpc = "returned"
  /\ cpErr = NilErr
  /\ Happened("CopyDone")
  /\ Happened("Wait")
  /\ cpLog[At("Wait")].err = ErrKilled

\* C14: the stdin pipe is obtained before the process is started, the
\* process is killed only after the copy has completed, and the call returns
\* only after both the copy has completed and the wait has returned.
C14_ReturnsAfterCopyAndWait ==
  /\ Happened("Start") => (Happened("StdinPipe") /\ At("StdinPipe") < At("Start"))
  /\ Happened("Kill") => (Happened("CopyDone") /\ At("CopyDone") < At("Kill"))
  /\ (cpc = "returned" /\ cpErr = NilErr) =>
       (Happened("CopyDone") /\ Happened("Wait") /\ copy # "copying")

\* hasBashInstalled's command k succeeded with non-empty output.
BashQualifies(k) == bashLog[k].err = NilErr /\ bashLog[k].out # <<>>

StrDefaultDir ==
  <<"~", "/", ".", "w", "a", "v", "e", "t", "e", "r", "m", "/", "b", "i",
    "n">>

StrDefaultTemp ==
  <<"~", "/", ".", "w", "a", "v", "e", "t", "e", "r", "m", "/", "b", "i",
    "n", "/", "w", "s", "h", ".", "t", "e", "m", "p">>

\* C15: bash is available iff `which bash`, or `where.exe bash` tried only
\* when the first did not qualify, succeeds with non-empty output; no third
\* command is run and no error comes out of the check.  The script is the
\* `bash -c '...'` wrapper exactly when bash is available, and both bodies
\* are mkdir installDir, cat to tempPath, mv tempPath installPath, chmod
\* installPath with the same three words.
C15_BashWrapperIffBash ==
  /\ Len(bashLog) <= 2
  /\ \A k \in 1..Len(bashLog) :
       bashLog[k].cmd = <<"which bash", "where.exe bash">>[k]
  /\ (Len(bashLog) = 2) => ~BashQualifies(1)
  /\ (cpc \notin {"which_bash", "where_bash"}) =>
       /\ bashInstalled <=> BashQualifies(Len(bashLog))
       /\ (Len(bashLog) = 1) => BashQualifies(1)
  /\ (cpc = "returned") => Happened("StdinPipe")
  /\ (cpc \notin {"which_bash", "where_bash", "render"}) =>
       LET words == InstallWords(destPath) IN
         /\ Len(script) = 11
         /\ script[1].text = IF bashInstalled THEN "bash -c ' \\\nmkdir -p "
                                              ELSE " \\\nmkdir -p "
         /\ script[3].text = "; \\\ncat > "
         /\ script[5].text = "; \\\nmv "
         /\ script[7].text = " "
         /\ script[9].text = "; \\\nchmod a+x "
         /\ script[11].text = IF bashInstalled THEN ";' \\\n" ELSE "; \\\n"
         /\ script[2].val = HTMLEscape(words.installDir)
         /\ script[4].val = HTMLEscape(words.tempPath)
         /\ script[6].val = HTMLEscape(words.tempPath)
         /\ script[8].val = HTMLEscape(words.installPath)
         /\ script[10].val = HTMLEscape(words.installPath)
         /\ (destPath = DefaultWshPath) =>
              /\ script[2].val = StrDefaultDir
              /\ script[4].val = StrDefaultTemp
              /\ script[8].val = DefaultWshPath

\* Neither lookup found bash: the script is the dialect-neutral body.
C15_Witness ==
  /\ Len(bashLog) = 2
  /\ ~bashInstalled
  /\ destPath = DefaultWshPath
  /\ Len(script) = 11
  /\ script[1].text = " \\\nmkdir -p "
  /\ script[2].val = StrDefaultDir

\* C20: whenever CpHostToRemote returns, on a success or an error path, a
\* process it started has been killed or waited on.
C20_NoProcessLeftBehind ==
  (cpc = "returned" /\ Happened("Start") /\ ~Failed("Start")) =>
    (Happened("Kill") \/ Happened("Wait"))

====
